---- MODULE Spec2Model ----
(***************************************************************************)
(* Model of the Wavefront line encoders (package senders) and of the       *)
(* growable StringBuilder (package internal) of wavefront-sdk-go.          *)
(*                                                                         *)
(* Strings and byte slices are sequences of bytes (0..255).  int64 values  *)
(* are kept at their width: a value is four 16-bit limbs, least            *)
(* significant first, in two's complement, so that v*1000 and v+1 wrap as  *)
(* they do in Go.                                                          *)
(***************************************************************************)
EXTENDS Integers, Sequences, FiniteSets, TLC

VARIABLES call, res, sb, written, hist, bufs, free, made, proc, nCalls, nAcq, nRel

vars == <<call, res, sb, written, hist, bufs, free, made, proc, nCalls, nAcq, nRel>>

(***************************************************************************)
(* Bounds of the model.                                                    *)
(***************************************************************************)
MaxIdLen == 4
MaxCap == 5
MaxCalls == 3
NBufs == 2

(***************************************************************************)
(* Bytes named in the source.                                              *)
(***************************************************************************)
Tilde == 126
Dash == 45
Comma == 44
Nine == 57
UpperA == 65
UpperZ == 90
LowerA == 97
LowerZ == 122
Underscore == 95
DQuote == 34
Space == 32
Newline == 10
Equals == 61
Backslash == 92
LowerN == 110
RuneSelf == 128
UTFMax == 4

Max(a, b) == IF a > b THEN a ELSE b

\* " source="
SourceEq == <<32, 115, 111, 117, 114, 99, 101, 61>>

\* internal.DeltaPrefix, U+2206, and internal.AltDeltaPrefix, U+0394, in UTF-8
DeltaPrefix == <<226, 136, 134>>
AltDeltaPrefix == <<206, 148>>

\* strings.HasPrefix
HasPrefix(str, p) == Len(str) >= Len(p) /\ SubSeq(str, 1, Len(p)) = p

(***************************************************************************)
(* Identifier sanitization.  A sanitizer state is the bytes written to the *)
(* builder so far and whether the call has panicked (an index out of       *)
(* range at str[skipHead]).                                                *)
(***************************************************************************)
isLegal(cur) ==
    ~( /\ ~(Comma <= cur /\ cur <= Nine)
       /\ ~(UpperA <= cur /\ cur <= UpperZ)
       /\ ~(LowerA <= cur /\ cur <= LowerZ)
       /\ cur # Underscore )

\* the loop "for i := skipHead; i < len(str); i++", from 0-based index i
RECURSIVE sanitizeLoop(_, _, _)
sanitizeLoop(out, str, i) ==
    IF i >= Len(str) THEN out
    ELSE sanitizeLoop(Append(out, IF isLegal(str[i + 1]) THEN str[i + 1] ELSE Dash),
                      str, i + 1)

\* sanitizeInternalSb(sb, str): out is the content of sb
sanitizeInternalSb(out, str) ==
    LET o1 == IF HasPrefix(str, DeltaPrefix) THEN out \o DeltaPrefix ELSE out
        h1 == IF HasPrefix(str, DeltaPrefix) THEN 3 ELSE 0
        o2 == IF HasPrefix(str, AltDeltaPrefix) THEN o1 \o AltDeltaPrefix ELSE o1
        h2 == IF HasPrefix(str, AltDeltaPrefix) THEN 2 ELSE h1
    IN  IF h2 >= Len(str)
        THEN [out |-> o2, panic |-> TRUE]
        ELSE LET tilde == str[h2 + 1] = Tilde
                 o3 == IF tilde THEN Append(o2, Tilde) ELSE o2
                 h3 == IF tilde THEN h2 + 1 ELSE h2
             IN  [out |-> sanitizeLoop(o3, str, h3), panic |-> FALSE]

(***************************************************************************)
(* Value sanitization.                                                     *)
(***************************************************************************)
\* unicode.IsSpace on the ASCII bytes
IsSpace(c) == c \in {9, 10, 11, 12, 13, 32}

RECURSIVE TrimLeft(_)
TrimLeft(s) ==
    IF s # <<>> /\ IsSpace(Head(s)) THEN TrimLeft(Tail(s)) ELSE s

RECURSIVE TrimRight(_)
TrimRight(s) ==
    IF s # <<>> /\ IsSpace(s[Len(s)]) THEN TrimRight(SubSeq(s, 1, Len(s) - 1)) ELSE s

\* strings.TrimSpace
TrimSpace(s) == TrimRight(TrimLeft(s))

\* strings.Contains(s, c) for a one-byte c
Contains(s, c) == \E i \in 1..Len(s) : s[i] = c

\* strings.ReplaceAll(s, c, rep) for a one-byte c
RECURSIVE ReplaceAll(_, _, _)
ReplaceAll(s, c, rep) ==
    IF s = <<>> THEN <<>>
    ELSE (IF Head(s) = c THEN rep ELSE <<Head(s)>>) \o ReplaceAll(Tail(s), c, rep)

sanitizeValueBody(str) ==
    LET r0 == TrimSpace(str)
        r1 == IF Contains(str, DQuote) THEN ReplaceAll(r0, DQuote, <<Backslash, DQuote>>)
              ELSE r0
    IN  ReplaceAll(r1, Newline, <<Backslash, LowerN>>)

\* sanitizeValueSb(sb, str)
sanitizeValueSb(out, str) ==
    (Append(out, DQuote) \o sanitizeValueBody(str)) \o <<DQuote>>

\* sanitizeValue(str)
sanitizeValue(str) == (<<DQuote>> \o sanitizeValueBody(str)) \o <<DQuote>>

(***************************************************************************)
(* int64: four 16-bit limbs, least significant first, two's complement.    *)
(***************************************************************************)
I64Zero == <<0, 0, 0, 0>>

\* int64 of a natural number below 2^31
I64(n) == <<n % 65536, n \div 65536, 0, 0>>

\* v * m for 0 <= m <= 1000, wrapping at 64 bits as Go's int64 multiplication does
I64MulSmall(v, m) ==
    LET t1 == v[1] * m
        t2 == v[2] * m + (t1 \div 65536)
        t3 == v[3] * m + (t2 \div 65536)
        t4 == v[4] * m + (t3 \div 65536)
    IN  <<t1 % 65536, t2 % 65536, t3 % 65536, t4 % 65536>>

\* v + k for 0 <= k < 65536, wrapping at 64 bits
I64AddSmall(v, k) ==
    LET t1 == v[1] + k
        t2 == v[2] + (t1 \div 65536)
        t3 == v[3] + (t2 \div 65536)
        t4 == v[4] + (t3 \div 65536)
    IN  <<t1 % 65536, t2 % 65536, t3 % 65536, t4 % 65536>>

I64IsNeg(v) == v[4] >= 32768

\* -v (two's complement: the complement plus one)
I64Negate(v) == I64AddSmall(<<65535 - v[1], 65535 - v[2], 65535 - v[3], 65535 - v[4]>>, 1)

\* unsigned comparison of the limbs, most significant first
U64Less(a, b) ==
    \/ a[4] < b[4]
    \/ (a[4] = b[4] /\ a[3] < b[3])
    \/ (a[4] = b[4] /\ a[3] = b[3] /\ a[2] < b[2])
    \/ (a[4] = b[4] /\ a[3] = b[3] /\ a[2] = b[2] /\ a[1] < b[1])

\* a < b on int64
I64Less(a, b) ==
    IF I64IsNeg(a) # I64IsNeg(b) THEN I64IsNeg(a) ELSE U64Less(a, b)

I64Leq(a, b) == a = b \/ I64Less(a, b)

\* the limbs divided by ten, as an unsigned number: <<quotient, remainder>>
U64DivMod10(v) ==
    LET q4 == v[4] \div 10
        r4 == v[4] % 10
        q3 == (r4 * 65536 + v[3]) \div 10
        r3 == (r4 * 65536 + v[3]) % 10
        q2 == (r3 * 65536 + v[2]) \div 10
        r2 == (r3 * 65536 + v[2]) % 10
        q1 == (r2 * 65536 + v[1]) \div 10
        r1 == (r2 * 65536 + v[1]) % 10
    IN  <<(<<q1, q2, q3, q4>>), r1>>

RECURSIVE U64Digits(_)
U64Digits(v) ==
    IF v = I64Zero THEN <<>>
    ELSE LET qr == U64DivMod10(v) IN Append(U64Digits(qr[1]), 48 + qr[2])

\* strconv.AppendInt(dst, i, 10): the text appended
FormatInt(v) ==
    IF v = I64Zero THEN <<48>>
    ELSE IF I64IsNeg(v) THEN <<Dash>> \o U64Digits(I64Negate(v))
    ELSE U64Digits(v)

(***************************************************************************)
(* float64 values of the model: NaN, the infinities, and decimals with at  *)
(* most two fractional digits, [neg, ip, cents] standing for               *)
(* (-1)^neg * (ip + cents/100).                                            *)
(***************************************************************************)
Fin(neg, ip, cents) == [cls |-> "fin", neg |-> neg, ip |-> ip, cents |-> cents]
NaN == [cls |-> "nan", neg |-> FALSE, ip |-> 0, cents |-> 0]
Inf(neg) == [cls |-> "inf", neg |-> neg, ip |-> 0, cents |-> 0]

RECURSIVE NatDigits(_)
NatDigits(n) ==
    IF n < 10 THEN <<48 + n>> ELSE Append(NatDigits(n \div 10), 48 + (n % 10))

\* strconv.AppendFloat(dst, f, 'f', -1, 64): the shortest text that reads back as f
FormatFloat(f) ==
    IF f.cls = "nan" THEN <<78, 97, 78>>
    ELSE IF f.cls = "inf" THEN (IF f.neg THEN <<45>> ELSE <<43>>) \o <<73, 110, 102>>
    ELSE (IF f.neg THEN <<45>> ELSE <<>>)
         \o NatDigits(f.ip)
         \o (IF f.cents = 0 THEN <<>>
             ELSE IF f.cents % 10 = 0 THEN <<46, 48 + (f.cents \div 10)>>
             ELSE <<46, 48 + (f.cents \div 10), 48 + (f.cents % 10)>>)

(***************************************************************************)
(* strconv.Quote and the string escaping of encoding/json, on ASCII bytes. *)
(***************************************************************************)
HexDigit(n) == IF n < 10 THEN 48 + n ELSE 87 + n

QuoteByte(c) ==
    CASE c = DQuote -> <<Backslash, DQuote>>
      [] c = Backslash -> <<Backslash, Backslash>>
      [] c = 7 -> <<Backslash, 97>>
      [] c = 8 -> <<Backslash, 98>>
      [] c = 12 -> <<Backslash, 102>>
      [] c = Newline -> <<Backslash, LowerN>>
      [] c = 13 -> <<Backslash, 114>>
      [] c = 9 -> <<Backslash, 116>>
      [] c = 11 -> <<Backslash, 118>>
      [] OTHER -> IF 32 <= c /\ c < 127 THEN <<c>>
                  ELSE <<Backslash, 120, HexDigit(c \div 16), HexDigit(c % 16)>>

RECURSIVE QuoteBody(_)
QuoteBody(s) == IF s = <<>> THEN <<>> ELSE QuoteByte(Head(s)) \o QuoteBody(Tail(s))

\* strconv.Quote(s)
Quote(s) == (<<DQuote>> \o QuoteBody(s)) \o <<DQuote>>

JSONByte(c) ==
    CASE c = DQuote -> <<Backslash, DQuote>>
      [] c = Backslash -> <<Backslash, Backslash>>
      [] c = Newline -> <<Backslash, LowerN>>
      [] c = 13 -> <<Backslash, 114>>
      [] c = 9 -> <<Backslash, 116>>
      [] OTHER -> IF 32 <= c /\ c < 127 /\ c \notin {60, 62, 38} THEN <<c>>
                  ELSE <<Backslash, 117, 48, 48, HexDigit(c \div 16), HexDigit(c % 16)>>

RECURSIVE JSONBody(_)
JSONBody(s) == IF s = <<>> THEN <<>> ELSE JSONByte(Head(s)) \o JSONBody(Tail(s))

\* json.Marshal of a string
JSONString(s) == (<<DQuote>> \o JSONBody(s)) \o <<DQuote>>

\* json.Marshal of a []string: null for a nil slice
RECURSIVE JSONStrings(_)
JSONStrings(l) ==
    IF l = <<>> THEN <<>>
    ELSE JSONString(Head(l)) \o (IF Len(l) > 1 THEN <<Comma>> ELSE <<>>) \o JSONStrings(Tail(l))

\* a < b on byte strings, the order in which json.Marshal writes a map's keys
RECURSIVE BytesLess(_, _)
BytesLess(a, b) ==
    IF b = <<>> THEN FALSE
    ELSE IF a = <<>> THEN TRUE
    ELSE IF Head(a) # Head(b) THEN Head(a) < Head(b)
    ELSE BytesLess(Tail(a), Tail(b))

\* the entries of a map[string]string in key order
RECURSIVE SortByKey(_)
SortByKey(m) ==
    IF m = <<>> THEN <<>>
    ELSE LET i == CHOOSE i \in 1..Len(m) :
                      \A j \in 1..Len(m) : j = i \/ BytesLess(m[i][1], m[j][1])
             rest == [k \in 1..(Len(m) - 1) |-> IF k < i THEN m[k] ELSE m[k + 1]]
         IN  <<m[i]>> \o SortByKey(rest)

RECURSIVE JSONPairs(_)
JSONPairs(m) ==
    IF m = <<>> THEN <<>>
    ELSE JSONString(Head(m)[1]) \o <<58>> \o JSONString(Head(m)[2])
         \o (IF Len(m) > 1 THEN <<Comma>> ELSE <<>>) \o JSONPairs(Tail(m))

\* json.Marshal of a non-nil map[string]string
JSONMap(m) == (<<123>> \o JSONPairs(SortByKey(m))) \o <<125>>


(***************************************************************************)
(* The byte strings the encoders write.                                    *)
(***************************************************************************)
\*  #
SpaceHash == <<32, 35>>
\* !M
MinuteToken == <<33, 77>>
\* !H
HourToken == <<33, 72>>
\* !D
DayToken == <<33, 68>>
\*  traceId=
TraceIdEq == <<32, 116, 114, 97, 99, 101, 73, 100, 61>>
\*  spanId=
SpanIdEq == <<32, 115, 112, 97, 110, 73, 100, 61>>
\*  parent=
ParentEq == <<32, 112, 97, 114, 101, 110, 116, 61>>
\*  followsFrom=
FollowsFromEq == <<32, 102, 111, 108, 108, 111, 119, 115, 70, 114, 111, 109, 61>>
\* _spanLogs
SpanLogsKey == <<95, 115, 112, 97, 110, 76, 111, 103, 115>>
\* true
TrueText == <<116, 114, 117, 101>>
\* {"timestamp":
JTimestamp == <<123, 34, 116, 105, 109, 101, 115, 116, 97, 109, 112, 34, 58>>
\* ,"fields":
JFields == <<44, 34, 102, 105, 101, 108, 100, 115, 34, 58>>
\* null
JNull == <<110, 117, 108, 108>>
\* {"traceId":
JTraceId == <<123, 34, 116, 114, 97, 99, 101, 73, 100, 34, 58>>
\* ,"spanId":
JSpanId == <<44, 34, 115, 112, 97, 110, 73, 100, 34, 58>>
\* ,"logs":
JLogs == <<44, 34, 108, 111, 103, 115, 34, 58>>
\*  tag=
TagEq == <<32, 116, 97, 103, 61>>
\* @Event
AtEvent == <<64, 69, 118, 101, 110, 116>>
\*  host=
HostEq == <<32, 104, 111, 115, 116, 61>>
\* {"annotations":
JAnnotations == <<123, 34, 97, 110, 110, 111, 116, 97, 116, 105, 111, 110, 115, 34, 58>>
\* ,"endTime":
JEndTime == <<44, 34, 101, 110, 100, 84, 105, 109, 101, 34, 58>>
\* ,"hosts":[
JHosts == <<44, 34, 104, 111, 115, 116, 115, 34, 58, 91>>
\* ,"name":
JName == <<44, 34, 110, 97, 109, 101, 34, 58>>
\* ,"startTime":
JStartTime == <<44, 34, 115, 116, 97, 114, 116, 84, 105, 109, 101, 34, 58>>
\* ,"tags":[
JTags == <<44, 34, 116, 97, 103, 115, 34, 58, 91>>

(***************************************************************************)
(* adjustStartEndTime                                                      *)
(***************************************************************************)
\* 999999999999
SecondsLimit == <<4095, 54437, 232, 0>>

\* a variant that gives an instantaneous event the start as its end
adjustStartEndTimeSameEnd(startMillis, endMillis) ==
    LET s == IF I64Less(startMillis, SecondsLimit) THEN I64MulSmall(startMillis, 1000)
             ELSE startMillis
        e == IF I64Leq(endMillis, SecondsLimit) THEN I64MulSmall(endMillis, 1000)
             ELSE endMillis
    IN  <<s, IF e = I64Zero THEN s ELSE e>>

adjustStartEndTime(startMillis, endMillis) ==
    LET s == IF I64Less(startMillis, SecondsLimit) THEN I64MulSmall(startMillis, 1000)
             ELSE startMillis
        e == IF I64Leq(endMillis, SecondsLimit) THEN I64MulSmall(endMillis, 1000)
             ELSE endMillis
    IN  <<s, IF e = I64Zero THEN I64AddSmall(s, 1) ELSE e>>

(***************************************************************************)
(* isUUIDFormat                                                            *)
(***************************************************************************)
IsHex(c) == (48 <= c /\ c <= 57) \/ (97 <= c /\ c <= 102) \/ (65 <= c /\ c <= 70)

isUUIDFormat(str) ==
    /\ Len(str) = 36
    /\ \A i \in 0..35 :
          IF i \in {8, 13, 18, 23} THEN str[i + 1] = Dash ELSE IsHex(str[i + 1])

(***************************************************************************)
(* The encoders.  What a call did: status is "ok", "err" or "panic"; out   *)
(* is the string returned and err the error; acq is the number of buffers  *)
(* the call took from the pool (internal.GetBuffer, released by the        *)
(* deferred internal.PutBuffer); sbuf is what the call wrote to it.        *)
(***************************************************************************)
Early(err) == [status |-> "err", out |-> <<>>, err |-> err, acq |-> 0, sbuf |-> <<>>]
Failed(err, sbuf) == [status |-> "err", out |-> <<>>, err |-> err, acq |-> 1, sbuf |-> sbuf]
Panicked(sbuf) == [status |-> "panic", out |-> <<>>, err |-> "", acq |-> 1, sbuf |-> sbuf]
Returned(out, sbuf) == [status |-> "ok", out |-> out, err |-> "", acq |-> 1, sbuf |-> sbuf]

\* "for k, v := range tags" of MetricLine and of HistoLine; tags lists the
\* mapping's entries <<k, v>> in the order the iteration visits them
RECURSIVE tagLoop(_, _, _)
tagLoop(out, tags, i) ==
    IF i > Len(tags) THEN [status |-> "ok", out |-> out]
    ELSE IF tags[i][2] = <<>> THEN [status |-> "err", out |-> out]
    ELSE LET s == sanitizeInternalSb(out \o <<Space, DQuote>>, tags[i][1])
         IN  IF s.panic THEN [status |-> "panic", out |-> s.out]
             ELSE tagLoop(sanitizeValueSb(s.out \o <<DQuote, Equals>>, tags[i][2]),
                          tags, i + 1)

MetricLine(name, value, ts, source, tags, defaultSource) ==
    IF name = <<>> THEN Early("empty metric name")
    ELSE
    LET src == IF source = <<>> THEN defaultSource ELSE source
        s == sanitizeInternalSb(<<DQuote>>, name)
    IN  IF s.panic THEN Panicked(s.out)
        ELSE
        LET b1 == (s.out \o <<DQuote, Space>>) \o FormatFloat(value)
            b2 == IF ts # I64Zero THEN (b1 \o <<Space>>) \o FormatInt(ts) ELSE b1
            b3 == sanitizeValueSb(b2 \o SourceEq, src)
            t == tagLoop(b3, tags, 1)
        IN  IF t.status = "panic" THEN Panicked(t.out)
            ELSE IF t.status = "err"
            THEN Failed("metric point tag value cannot be blank", t.out)
            ELSE Returned(Append(t.out, Newline), Append(t.out, Newline))

\* histogram.Centroids.Compact: one centroid per value, the counts added up
RECURSIVE Compact(_)
Compact(cs) ==
    IF cs = <<>> THEN <<>>
    ELSE LET c == Head(cs)
             same == {i \in 2..Len(cs) : cs[i].Value = c.Value}
             RECURSIVE Sum(_)
             Sum(S) == IF S = {} THEN 0
                       ELSE LET i == CHOOSE i \in S : TRUE
                            IN  cs[i].Count + Sum(S \ {i})
             RECURSIVE Others(_)
             Others(l) == IF l = <<>> THEN <<>>
                          ELSE (IF Head(l).Value = c.Value THEN <<>> ELSE <<Head(l)>>)
                               \o Others(Tail(l))
         IN  <<[Value |-> c.Value, Count |-> c.Count + Sum(same)]>>
             \o Compact(Others(Tail(cs)))

\* "for _, centroid := range centroids.Compact()"
RECURSIVE centroidLoop(_, _)
centroidLoop(out, cs) ==
    IF cs = <<>> THEN out
    ELSE centroidLoop((((out \o SpaceHash) \o FormatInt(I64(Head(cs).Count)))
                       \o <<Space>>) \o FormatFloat(Head(cs).Value),
                      Tail(cs))

\* histogram.Granularity.String: MINUTE, HOUR, DAY
GranularityString(hg) ==
    CASE hg = "MINUTE" -> MinuteToken
      [] hg = "HOUR" -> HourToken
      [] hg = "DAY" -> DayToken

\* a variant that writes a line for every entry, whatever its flag
RECURSIVE granularityLoopAll(_, _)
granularityLoopAll(sbBytes, hgs) ==
    IF hgs = <<>> THEN <<>>
    ELSE ((GranularityString(Head(hgs)[1]) \o sbBytes) \o <<Newline>>)
         \o granularityLoopAll(sbBytes, Tail(hgs))

\* "for hg, on := range hgs"; hgs lists the mapping's entries <<hg, on>> in
\* the order the iteration visits them
RECURSIVE granularityLoop(_, _)
granularityLoop(sbBytes, hgs) ==
    IF hgs = <<>> THEN <<>>
    ELSE (IF Head(hgs)[2]
          THEN (GranularityString(Head(hgs)[1]) \o sbBytes) \o <<Newline>>
          ELSE <<>>)
         \o granularityLoop(sbBytes, Tail(hgs))

HistoLine(name, centroids, hgs, ts, source, tags, defaultSource) ==
    IF name = <<>> THEN Early("empty distribution name")
    ELSE IF Len(centroids) = 0 THEN Early("distribution should have at least one centroid")
    ELSE IF Len(hgs) = 0 THEN Early("histogram granularities cannot be empty")
    ELSE
    LET src == IF source = <<>> THEN defaultSource ELSE source
        b1 == IF ts # I64Zero THEN <<Space>> \o FormatInt(ts) ELSE <<>>
        b2 == centroidLoop(b1, Compact(centroids))
        s == sanitizeInternalSb(b2 \o <<Space, DQuote>>, name)
    IN  IF s.panic THEN Panicked(s.out)
        ELSE
        LET b3 == sanitizeValueSb((s.out \o <<DQuote>>) \o SourceEq, src)
            t == tagLoop(b3, tags, 1)
        IN  IF t.status = "panic" THEN Panicked(t.out)
            ELSE IF t.status = "err"
            THEN Failed("histogram tag value cannot be blank", t.out)
            ELSE Returned(granularityLoop(t.out, hgs), t.out)

\* " parent=" + parent for each parent, " followsFrom=" + item for each item
RECURSIVE refLoop(_, _, _)
refLoop(out, label, refs) ==
    IF refs = <<>> THEN out
    ELSE refLoop((out \o label) \o Head(refs), label, Tail(refs))

\* "for _, tag := range tags" of SpanLine; a tag is <<Key, Value>>
RECURSIVE spanTagLoop(_, _, _)
spanTagLoop(out, tags, i) ==
    IF i > Len(tags) THEN [status |-> "ok", out |-> out]
    ELSE IF tags[i][1] = <<>> \/ tags[i][2] = <<>> THEN [status |-> "err", out |-> out]
    ELSE LET s == sanitizeInternalSb(out \o <<Space, DQuote>>, tags[i][1])
         IN  IF s.panic THEN [status |-> "panic", out |-> s.out]
             ELSE spanTagLoop(sanitizeValueSb(s.out \o <<DQuote, Equals>>, tags[i][2]),
                              tags, i + 1)

SpanLine(name, startMillis, durationMillis, source, traceId, spanId, parents, followsFrom, tags, spanLogs, defaultSource) ==
    IF name = <<>> THEN Early("empty span name")
    ELSE IF ~isUUIDFormat(traceId) THEN Early("traceId is not in UUID format")
    ELSE IF ~isUUIDFormat(spanId) THEN Early("spanId is not in UUID format")
    ELSE
    LET src == IF source = <<>> THEN defaultSource ELSE source
        b1 == sanitizeValueSb(sanitizeValueSb(<<>>, name) \o SourceEq, src)
        b2 == ((b1 \o TraceIdEq) \o traceId \o SpanIdEq) \o spanId
        b3 == refLoop(b2, ParentEq, parents)
        b4 == refLoop(b3, FollowsFromEq, followsFrom)
        b5 == IF Len(spanLogs) > 0
              THEN ((((b4 \o <<Space, DQuote>>) \o SpanLogsKey) \o <<DQuote, Equals, DQuote>>)
                    \o TrueText) \o <<DQuote>>
              ELSE b4
        t == spanTagLoop(b5, tags, 1)
    IN  IF t.status = "panic" THEN Panicked(t.out)
        ELSE IF t.status = "err" THEN Failed("span tag key/value cannot be blank", t.out)
        ELSE LET b6 == ((((t.out \o <<Space>>) \o FormatInt(startMillis)) \o <<Space>>)
                        \o FormatInt(durationMillis)) \o <<Newline>>
             IN  Returned(b6, b6)

\* json.Marshal of a SpanLog {Timestamp int64 "timestamp"; Fields map[string]string "fields"}
JSONSpanLog(log) ==
    (((JTimestamp \o FormatInt(log.Timestamp)) \o JFields)
     \o JSONMap(log.Fields)) \o <<125>>

RECURSIVE JSONSpanLogs(_)
JSONSpanLogs(logs) ==
    IF logs = <<>> THEN <<>>
    ELSE (JSONSpanLog(Head(logs)) \o (IF Len(logs) > 1 THEN <<Comma>> ELSE <<>>))
         \o JSONSpanLogs(Tail(logs))

\* a variant that returns the JSON text as json.Marshal gives it
SpanLogJSONBare(traceId, spanId, spanLogs, isNil) ==
    LET logs == IF isNil THEN JNull ELSE (<<91>> \o JSONSpanLogs(spanLogs)) \o <<93>>
        out == (((((JTraceId \o JSONString(traceId)) \o JSpanId)
                 \o JSONString(spanId)) \o JLogs) \o logs) \o <<125>>
    IN  [status |-> "ok", out |-> out, err |-> "", acq |-> 0, sbuf |-> <<>>]

\* SpanLogJSON; a nil spanLogs is written as null
SpanLogJSON(traceId, spanId, spanLogs, isNil) ==
    LET logs == IF isNil THEN JNull ELSE (<<91>> \o JSONSpanLogs(spanLogs)) \o <<93>>
        out == (((((JTraceId \o JSONString(traceId)) \o JSpanId)
                 \o JSONString(spanId)) \o JLogs) \o logs) \o <<125>>
    IN  [status |-> "ok", out |-> Append(out, Newline), err |-> "", acq |-> 0, sbuf |-> <<>>]

\* "for k, v := range annotations" of EventLine
RECURSIVE annotationLoop(_, _)
annotationLoop(out, annotations) ==
    IF annotations = <<>> THEN out
    ELSE annotationLoop((((out \o <<Space>>) \o Head(annotations)[1]) \o <<Equals>>)
                         \o Quote(Head(annotations)[2]),
                        Tail(annotations))

\* fmt.Sprintf("%v: %v", k, v)
TagText(kv) == (kv[1] \o <<58, Space>>) \o kv[2]

\* "for k, v := range tags" of EventLine
RECURSIVE eventTagLoop(_, _)
eventTagLoop(out, tags) ==
    IF tags = <<>> THEN out
    ELSE eventTagLoop((out \o TagEq) \o Quote(TagText(Head(tags))), Tail(tags))

\* EventLine; annotations is the mapping the setters leave, in iteration order
EventLine(name, startMillis, endMillis, source, tags, annotations) ==
    LET t == adjustStartEndTime(startMillis, endMillis)
        b1 == ((((AtEvent \o <<Space>>) \o FormatInt(t[1])) \o <<Space>>)
               \o FormatInt(t[2])) \o <<Space>>
        b2 == annotationLoop(b1 \o Quote(name), annotations)
        b3 == IF Len(source) > 0 THEN (b2 \o HostEq) \o Quote(source) ELSE b2
        b4 == Append(eventTagLoop(b3, tags), Newline)
    IN  Returned(b4, b4)

RECURSIVE TagList(_)
TagList(tags) == IF tags = <<>> THEN <<>> ELSE <<TagText(Head(tags))>> \o TagList(Tail(tags))

\* EventLineJSON: json.Marshal writes the keys of l in sorted order
EventLineJSON(name, startMillis, endMillis, source, tags, annotations) ==
    LET t == adjustStartEndTime(startMillis, endMillis)
        j1 == (JAnnotations \o JSONMap(annotations))
              \o (JEndTime \o FormatInt(t[2]))
        j2 == IF Len(source) > 0
              THEN ((j1 \o JHosts) \o JSONString(source)) \o <<93>>
              ELSE j1
        j3 == (j2 \o JName) \o JSONString(name)
        j4 == (j3 \o JStartTime) \o FormatInt(t[1])
        j5 == IF Len(tags) > 0
              THEN ((j4 \o JTags) \o JSONStrings(TagList(tags))) \o <<93>>
              ELSE j4
    IN  [status |-> "ok", out |-> Append(j5, 125), err |-> "", acq |-> 0, sbuf |-> <<>>]

(***************************************************************************)
(* StringBuilder.  buf is a slice: arr is its backing array (Cap = the     *)
(* array's length) and len the slice's length; the bytes of arr past len   *)
(* are whatever was stored there before.                                   *)
(***************************************************************************)
Zeros(n) == [i \in 1..n |-> 0]

\* the zero value
NewBuilder == [arr |-> <<>>, len |-> 0]

BLen(b) == b.len

Cap(b) == Len(b.arr)

\* b.buf as a value
Bytes(b) == SubSeq(b.arr, 1, b.len)

\* string(b.buf): a copy
String(b) == Bytes(b)

\* make([]byte, len(b.buf), 2*cap(b.buf)+n); copy(buf, b.buf)
grow(b, n) == [arr |-> Bytes(b) \o Zeros(2 * Cap(b) + n - b.len), len |-> b.len]

\* Grow(n) for n >= 0 (a negative n panics)
Grow(b, n) == IF Cap(b) - b.len < n THEN grow(b, n) ELSE b

\* append(b.buf, p...): in place when p fits the capacity; otherwise into a new
\* array of the capacity the runtime picks, at least the doubled capacity and at
\* least the length needed (slack is what the runtime adds on top)
append(b, p, slack) ==
    IF b.len + Len(p) <= Cap(b)
    THEN [arr |-> [i \in 1..Cap(b) |->
                      IF b.len < i /\ i <= b.len + Len(p) THEN p[i - b.len] ELSE b.arr[i]],
          len |-> b.len + Len(p)]
    ELSE [arr |-> (Bytes(b) \o p)
                  \o Zeros(Max(2 * Cap(b), b.len + Len(p)) + slack - (b.len + Len(p))),
          len |-> b.len + Len(p)]

Write(b, p, slack) == append(b, p, slack)

WriteByte(b, c, slack) == append(b, <<c>>, slack)

WriteString(b, s, slack) == append(b, s, slack)

\* utf8.EncodeRune: the bytes written for r
EncodeRune(r) ==
    IF r < 0 \/ r > 1114111 \/ (55296 <= r /\ r <= 57343) THEN <<239, 191, 189>>
    ELSE IF r < 128 THEN <<r>>
    ELSE IF r < 2048 THEN <<192 + (r \div 64), 128 + (r % 64)>>
    ELSE IF r < 65536
    THEN <<224 + (r \div 4096), 128 + ((r \div 64) % 64), 128 + (r % 64)>>
    ELSE <<240 + (r \div 262144), 128 + ((r \div 4096) % 64), 128 + ((r \div 64) % 64),
           128 + (r % 64)>>

WriteRune(b, r, slack) ==
    IF r < RuneSelf THEN append(b, <<r % 256>>, slack)
    ELSE LET g == IF Cap(b) - b.len < UTFMax THEN grow(b, UTFMax) ELSE b
             e == EncodeRune(r)
         IN  [arr |-> [i \in 1..Cap(g) |->
                          IF g.len < i /\ i <= g.len + Len(e) THEN e[i - g.len]
                          ELSE g.arr[i]],
              len |-> g.len + Len(e)]

\* a variant that drops the array, as strings.Builder's Reset does
ResetToNil(b) == [arr |-> <<>>, len |-> 0]

\* b.buf = b.buf[:0]
Reset(b) == [arr |-> b.arr, len |-> 0]

AppendFloat(b, f, slack) == append(b, FormatFloat(f), slack)

AppendInt(b, i, slack) == append(b, FormatInt(i), slack)

(***************************************************************************)
(* sanitizeInternal: the string form, which writes string(cur), the UTF-8  *)
(* encoding of the code point cur, for a legal byte cur.                   *)
(***************************************************************************)
RECURSIVE sanitizeStrLoop(_, _, _)
sanitizeStrLoop(out, str, i) ==
    IF i >= Len(str) THEN out
    ELSE sanitizeStrLoop(out \o (IF isLegal(str[i + 1]) THEN EncodeRune(str[i + 1])
                                 ELSE <<Dash>>),
                         str, i + 1)

sanitizeInternal(str) ==
    LET o1 == IF HasPrefix(str, DeltaPrefix) THEN DeltaPrefix ELSE <<>>
        h1 == IF HasPrefix(str, DeltaPrefix) THEN 3 ELSE 0
        o2 == IF HasPrefix(str, AltDeltaPrefix) THEN o1 \o AltDeltaPrefix ELSE o1
        h2 == IF HasPrefix(str, AltDeltaPrefix) THEN 2 ELSE h1
    IN  IF h2 >= Len(str)
        THEN [out |-> o2, panic |-> TRUE]
        ELSE LET tilde == str[h2 + 1] = Tilde
                 o3 == IF tilde THEN Append(o2, Tilde) ELSE o2
                 h3 == IF tilde THEN h2 + 1 ELSE h2
             IN  [out |-> sanitizeStrLoop(o3, str, h3), panic |-> FALSE]

(***************************************************************************)
(* The inputs the calls are made with.                                     *)
(***************************************************************************)
RECURSIVE StringsOver(_, _)
StringsOver(A, n) ==
    IF n = 0 THEN {<<>>}
    ELSE LET S == StringsOver(A, n - 1) IN S \cup {Append(s, c) : s \in S, c \in A}

\* '~', 'a', '!', and two bytes of a multi-byte sequence
BodyAlphabet == {Tilde, LowerA, 33, 226, 136}

\* identifiers: an optional delta marker, then up to MaxIdLen bytes; and every
\* byte value alone and behind each kind of head
Identifiers ==
    ({p \o s : p \in {<<>>, DeltaPrefix, AltDeltaPrefix},
               s \in StringsOver(BodyAlphabet, MaxIdLen)}
     \cup {p \o <<c>> : p \in {<<>>, <<LowerA>>, DeltaPrefix, Append(DeltaPrefix, Tilde)},
                        c \in 0..255})
    \ {<<>>}

MaxInt64 == <<65535, 65535, 65535, 32767>>
MinInt64 == <<0, 0, 0, 32768>>
MinusOne == <<65535, 65535, 65535, 65535>>

\* seconds and milliseconds around the limit, the ends of the int64 range,
\* and -2^61, whose product with 1000 wraps to 0
TimeValues ==
    {I64Zero, I64(1), I64(3), I64(5), I64(1533531013),
     <<4094, 54437, 232, 0>>, SecondsLimit, I64AddSmall(SecondsLimit, 1),
     I64MulSmall(I64(1533531013), 1000), MaxInt64, MinInt64, MinusOne,
     <<0, 0, 0, 57344>>}

\* "a", the delta marker alone, "∆~a", "a b", "Δa"
Names ==
    {<<>>, <<LowerA>>, DeltaPrefix, DeltaPrefix \o <<Tilde, LowerA>>,
     <<LowerA, Space, 98>>, Append(AltDeltaPrefix, LowerA)}

\* 42422 and -5.1
Values == {Fin(FALSE, 42422, 0), Fin(TRUE, 5, 10)}

\* "", "s", and a source to trim and escape
Sources == {<<>>, <<115>>, <<Space, 115, DQuote, Newline>>}

\* the entries of a tag mapping in an iteration order: keys "" and "k",
\* values "" and "v", no key twice
TagKeys == {<<>>, <<107>>}
TagVals == {<<>>, <<118>>}
TagMaps ==
    {<<>>}
    \cup {<<(<<k, v>>)>> : k \in TagKeys, v \in TagVals}
    \cup {t \in {<<(<<k1, v1>>), (<<k2, v2>>)>> :
                    k1 \in TagKeys, k2 \in TagKeys, v1 \in TagVals, v2 \in TagVals} :
              t[1][1] # t[2][1]}

\* one tag, or none
FewTags == {t \in TagMaps : Len(t) <= 1}

Centroid(v, c) == [Value |-> v, Count |-> c]
CentroidSeqs ==
    {<<>>,
     <<Centroid(Fin(FALSE, 30, 0), 20)>>,
     <<Centroid(Fin(FALSE, 30, 0), 20), Centroid(Fin(FALSE, 5, 10), 10)>>,
     <<Centroid(Fin(FALSE, 30, 0), 20), Centroid(Fin(FALSE, 30, 0), 1)>>}

Granularities == {"MINUTE", "HOUR", "DAY"}

\* the entries of a granularity mapping in an iteration order
GranularityMaps ==
    {<<>>}
    \cup {<<(<<g, on>>)>> : g \in Granularities, on \in BOOLEAN}
    \cup {m \in {<<(<<g1, on1>>), (<<g2, on2>>)>> :
                    g1 \in Granularities, g2 \in Granularities,
                    on1 \in BOOLEAN, on2 \in BOOLEAN} :
              m[1][1] # m[2][1]}
    \cup {m \in {<<(<<g1, on1>>), (<<g2, on2>>), (<<g3, on3>>)>> :
                    g1 \in Granularities, g2 \in Granularities, g3 \in Granularities,
                    on1 \in BOOLEAN, on2 \in BOOLEAN, on3 \in BOOLEAN} :
              m[1][1] # m[2][1] /\ m[1][1] # m[3][1] /\ m[2][1] # m[3][1]}

\* 7b3bf470-9456-11e8-9eb6-529269fb1459
GoodUUID ==
    <<55, 98, 51, 98, 102, 52, 55, 48, 45, 57, 52, 53, 54, 45, 49, 49, 101, 56, 45,
      57, 101, 98, 54, 45, 53, 50, 57, 50, 54, 57, 102, 98, 49, 52, 53, 57>>

\* the same with the first hyphen removed, and with 'g' for its first digit
UUIDs ==
    {GoodUUID,
     SubSeq(GoodUUID, 1, 8) \o SubSeq(GoodUUID, 10, 36),
     <<103>> \o SubSeq(GoodUUID, 2, 36)}

SpanTagSeqs ==
    {<<>>, <<(<<(<<107>>), (<<118>>)>>)>>, <<(<<(<<>>), (<<118>>)>>)>>,
     <<(<<(<<107>>), (<<>>)>>)>>, <<(<<DeltaPrefix, (<<118>>)>>)>>}

SpanLogSeqs == {<<>>, <<[Timestamp |-> I64(7), Fields |-> <<>>]>>}

\* "", "a", and a name to escape
EventNames == {<<>>, <<LowerA>>, <<LowerA, DQuote, Newline>>}

\* the annotations the setters leave: none, or details="e"
AnnotationMaps == {<<>>, <<(<<(<<100>>), (<<101>>)>>)>>}

(***************************************************************************)
(* The calls, one at a time: call is the call made and res what it did.    *)
(***************************************************************************)
\* a process that is in no call
IdleProc ==
    [step |-> 0, job |-> [op |-> "none", name |-> <<>>, tags |-> <<>>, traceId |-> <<>>],
     steps |-> <<>>, todo |-> <<>>, buf |-> 0, used |-> 0, pos |-> 0, acq |-> 0, rel |-> 0,
     ret |-> [status |-> "none", out |-> <<>>, err |-> ""],
     fail |-> [status |-> "none", out |-> <<>>, err |-> ""]]

Idle ==
    /\ sb = NewBuilder
    /\ written = <<>>
    /\ hist = [reset |-> FALSE, capBefore |-> 0, lenBefore |-> 0]
    /\ bufs = [i \in 1..NBufs |-> NewBuilder]
    /\ free = {}
    /\ made = 0
    /\ proc = [p \in {"p1", "p2"} |-> IdleProc]
    /\ nCalls = 0
    /\ nAcq = 0
    /\ nRel = 0

Init ==
    /\ call = [op |-> "none"]
    /\ res = [status |-> "none"]
    /\ Idle

NoBuilder == UNCHANGED <<sb, written, hist>>
NoPool == UNCHANGED <<bufs, free, made, proc, nCalls, nAcq, nRel>>
NoCall == UNCHANGED <<call, res>>

CallSanitize ==
    /\ call.op = "none"
    /\ \E str \in Identifiers :
        LET r == sanitizeInternal(str)
        IN  /\ call' = [op |-> "sanitizeInternal", str |-> str]
            /\ res' = [status |-> IF r.panic THEN "panic" ELSE "ok",
                       out |-> r.out,
                       sbOut |-> sanitizeInternalSb(<<>>, str),
                       again |-> IF r.panic THEN r ELSE sanitizeInternal(r.out)]
            /\ NoBuilder /\ NoPool

CallAdjust ==
    /\ call.op = "none"
    /\ \E e \in TimeValues, s \in TimeValues :
        /\ call' = [op |-> "adjustStartEndTime", startMillis |-> s, endMillis |-> e]
        /\ res' = [status |-> "ok", times |-> adjustStartEndTime(s, e)]
        /\ NoBuilder /\ NoPool

CallMetricLine ==
    /\ call.op = "none"
    /\ \E name \in Names, value \in Values, ts \in {I64Zero, I64(1533531013)},
       source \in Sources, tags \in TagMaps :
        /\ call' = [op |-> "MetricLine", name |-> name, value |-> value, ts |-> ts,
                    source |-> source, tags |-> tags, defaultSource |-> <<100>>]
        /\ res' = MetricLine(name, value, ts, source, tags, <<100>>)
        /\ NoBuilder /\ NoPool

CallHistoLine ==
    /\ call.op = "none"
    /\ \E tags \in TagMaps, centroids \in CentroidSeqs, hgs \in GranularityMaps,
          ts \in {I64Zero, I64(15)}, source \in {<<>>, <<115>>},
          name \in {<<>>, <<LowerA>>, DeltaPrefix} :
        /\ call' = [op |-> "HistoLine", name |-> name, centroids |-> centroids,
                    hgs |-> hgs, ts |-> ts, source |-> source, tags |-> tags,
                    defaultSource |-> <<100>>]
        /\ res' = HistoLine(name, centroids, hgs, ts, source, tags, <<100>>)
        /\ NoBuilder /\ NoPool

CallSpanLine ==
    /\ call.op = "none"
    /\ \E name \in {<<>>, <<LowerA>>}, source \in {<<>>, <<115>>}, traceId \in UUIDs,
       spanId \in UUIDs, parents \in {<<>>, <<GoodUUID>>},
       followsFrom \in {<<>>, <<GoodUUID>>}, tags \in SpanTagSeqs,
       spanLogs \in SpanLogSeqs :
        /\ call' = [op |-> "SpanLine", name |-> name, source |-> source,
                    traceId |-> traceId, spanId |-> spanId, parents |-> parents,
                    followsFrom |-> followsFrom, tags |-> tags, spanLogs |-> spanLogs]
        /\ res' = SpanLine(name, I64(5), I64(6), source, traceId, spanId, parents,
                           followsFrom, tags, spanLogs, <<100>>)
        /\ NoBuilder /\ NoPool

CallSpanLogJSON ==
    /\ call.op = "none"
    /\ \E traceId \in UUIDs \cup {<<>>}, spanId \in UUIDs, spanLogs \in SpanLogSeqs,
       isNil \in BOOLEAN :
        /\ isNil => spanLogs = <<>>
        /\ call' = [op |-> "SpanLogJSON", traceId |-> traceId, spanId |-> spanId,
                    spanLogs |-> spanLogs, isNil |-> isNil]
        /\ res' = SpanLogJSON(traceId, spanId, spanLogs, isNil)
        /\ NoBuilder /\ NoPool

CallEventLine ==
    /\ call.op = "none"
    /\ \E name \in EventNames, s \in TimeValues, e \in TimeValues,
       source \in {<<>>, <<104>>}, tags \in {t \in FewTags : t = <<>> \/ t[1][2] # <<>>},
       annotations \in AnnotationMaps :
        /\ call' = [op |-> "EventLine", name |-> name, startMillis |-> s,
                    endMillis |-> e, source |-> source, tags |-> tags,
                    annotations |-> annotations]
        /\ res' = EventLine(name, s, e, source, tags, annotations)
        /\ NoBuilder /\ NoPool

CallEventLineJSON ==
    /\ call.op = "none"
    /\ \E name \in EventNames, s \in TimeValues, e \in TimeValues,
       source \in {<<>>, <<104>>}, tags \in {t \in FewTags : t = <<>> \/ t[1][2] # <<>>},
       annotations \in AnnotationMaps :
        /\ call' = [op |-> "EventLineJSON", name |-> name, startMillis |-> s,
                    endMillis |-> e, source |-> source, tags |-> tags,
                    annotations |-> annotations]
        /\ res' = EventLineJSON(name, s, e, source, tags, annotations)
        /\ NoBuilder /\ NoPool

\* the call returns to its caller
Return ==
    /\ call.op # "none"
    /\ call' = [op |-> "none"]
    /\ res' = [status |-> "none"]
    /\ NoBuilder /\ NoPool

Next ==
    \/ Return
    \/ CallSanitize
    \/ CallAdjust
    \/ CallMetricLine
    \/ CallHistoLine
    \/ CallSpanLine
    \/ CallSpanLogJSON
    \/ CallEventLine
    \/ CallEventLineJSON

Spec == Init /\ [][Next]_vars

(***************************************************************************)
(* Properties of the calls.                                                *)
(***************************************************************************)
IsCall(op) == call.op = op /\ res.status # "none"

AllTagValuesNonEmpty(tags) == \A i \in 1..Len(tags) : tags[i][2] # <<>>

\* the bytes identifier sanitization keeps: , - . / 0-9 A-Z a-z _
LegalBytes == {44, 45, 46, 47} \cup (48..57) \cup (65..90) \cup (97..122) \cup {95}

\* the length of the head of an identifier: the delta marker, if any, and the
\* tilde right after it, if any
HeadLen(str) ==
    LET d == IF HasPrefix(str, DeltaPrefix) THEN 3
             ELSE IF HasPrefix(str, AltDeltaPrefix) THEN 2 ELSE 0
    IN  IF Len(str) > d /\ str[d + 1] = Tilde THEN d + 1 ELSE d

\* what the claims say sanitization returns: the head kept, then byte for byte
Expected(str) ==
    [i \in 1..Len(str) |->
        IF i <= HeadLen(str) \/ str[i] \in LegalBytes THEN str[i] ELSE Dash]

\* C1: MetricLine with a non-empty name and no empty tag value returns a line
\* and no error and does not abort, and identifier sanitization never fails.
C1_MetricLineSucceeds ==
    /\ (IsCall("MetricLine") /\ call.name # <<>> /\ AllTagValuesNonEmpty(call.tags))
          => (res.status = "ok" /\ res.out # <<>>)
    /\ IsCall("sanitizeInternal") => (res.status = "ok" /\ ~res.sbOut.panic)

\* C2: adjustStartEndTime scales start and end by the same rule: a value
\* v <= 999999999999 becomes v*1000, a larger one is returned as it is (the
\* end before 0 is replaced by start+1).
ScaledSeconds(v) == IF I64Leq(v, SecondsLimit) THEN I64MulSmall(v, 1000) ELSE v

C2_SameThreshold ==
    IsCall("adjustStartEndTime") =>
        /\ res.times[1] = ScaledSeconds(call.startMillis)
        /\ ScaledSeconds(call.endMillis) # I64Zero
              => res.times[2] = ScaledSeconds(call.endMillis)

\* s cut at its first byte c: <<the bytes before it, the bytes after it>>
Cut(s, c) ==
    IF ~Contains(s, c) THEN <<s, (<<>>)>>
    ELSE LET i == CHOOSE i \in 1..Len(s) : s[i] = c /\ \A j \in 1..(i - 1) : s[j] # c
         IN  <<SubSeq(s, 1, i - 1), SubSeq(s, i + 1, Len(s))>>

\* strings.Contains(s, t)
HasInfix(s, t) == \E i \in 0..(Len(s) - Len(t)) : SubSeq(s, i + 1, i + Len(t)) = t

\* C3, as claimed: for every pair of inputs the returned pair (s, e) has
\* e > s and e # 0, and for endMillis = 0 and a start in seconds (one the
\* code scales, startMillis < 999999999999) the result is
\* (startMillis*1000, startMillis*1000 + 1).
C3_PositiveDuration ==
    IsCall("adjustStartEndTime") =>
        /\ I64Less(res.times[1], res.times[2])
        /\ res.times[2] # I64Zero
        /\ (call.endMillis = I64Zero /\ I64Less(call.startMillis, SecondsLimit))
              => res.times = <<I64MulSmall(call.startMillis, 1000),
                               I64AddSmall(I64MulSmall(call.startMillis, 1000), 1)>>

\* C3, amended: the returned end is never 0; when endMillis is 0 the returned
\* end is the returned start plus one, which is greater than the start unless
\* the start is the largest int64; for endMillis = 0 and
\* startMillis < 999999999999 the result is (startMillis*1000,
\* startMillis*1000 + 1), for (1533531013, 0) it is (1533531013000,
\* 1533531013001); EventLine writes these times and EventLineJSON never
\* writes an endTime of 0.
C3_EndNeverZero ==
    /\ IsCall("adjustStartEndTime") =>
          /\ res.times[2] # I64Zero
          /\ call.endMillis = I64Zero =>
                /\ res.times[2] = I64AddSmall(res.times[1], 1)
                /\ res.times[1] # MaxInt64 => I64Less(res.times[1], res.times[2])
          /\ (call.endMillis = I64Zero /\ I64Less(call.startMillis, SecondsLimit))
                => res.times = <<I64MulSmall(call.startMillis, 1000),
                                 I64AddSmall(I64MulSmall(call.startMillis, 1000), 1)>>
          /\ (call.endMillis = I64Zero /\ call.startMillis = I64(1533531013))
                => res.times = <<(<<16264, 3474, 357, 0>>), (<<16265, 3474, 357, 0>>)>>
    /\ IsCall("EventLine") =>
          LET f1 == Cut(res.out, Space)
              f2 == Cut(f1[2], Space)
              f3 == Cut(f2[2], Space)
          IN  /\ f1[1] = AtEvent
              /\ f3[1] # <<48>>
              /\ \E s \in TimeValues \cup {I64MulSmall(v, 1000) : v \in TimeValues} :
                    /\ f2[1] = FormatInt(s)
                    /\ call.endMillis = I64Zero => f3[1] = FormatInt(I64AddSmall(s, 1))
    /\ IsCall("EventLineJSON") =>
          /\ HasInfix(res.out, JEndTime)
          /\ ~HasInfix(res.out, (JEndTime \o <<48, Comma>>))

C3_Witness ==
    /\ IsCall("adjustStartEndTime")
    /\ call.startMillis = I64(1533531013)
    /\ call.endMillis = I64Zero
    /\ FormatInt(res.times[1]) = <<49, 53, 51, 51, 53, 51, 49, 48, 49, 51, 48, 48, 48>>
    /\ FormatInt(res.times[2]) = <<49, 53, 51, 51, 53, 51, 49, 48, 49, 51, 48, 48, 49>>

EndsWithOneNewline(s) ==
    /\ s # <<>>
    /\ s[Len(s)] = Newline
    /\ Len(s) > 1 => s[Len(s) - 1] # Newline

LineEncoders == {"MetricLine", "HistoLine", "SpanLine", "SpanLogJSON", "EventLine"}

\* C4, as claimed: every non-empty string an encoder returns without error
\* ends with exactly one newline.
C4_NewlineTerminated ==
    (call.op \in LineEncoders \cup {"EventLineJSON"} /\ res.status = "ok" /\ res.out # <<>>)
        => EndsWithOneNewline(res.out)

\* C4, amended: every non-empty string returned without error by MetricLine,
\* HistoLine, SpanLine, SpanLogJSON or EventLine ends with exactly one
\* newline; EventLineJSON returns the JSON object alone, ending with its
\* closing brace and no newline.
C4_LinesNewlineTerminated ==
    /\ (call.op \in LineEncoders /\ res.status = "ok" /\ res.out # <<>>)
          => EndsWithOneNewline(res.out)
    /\ (IsCall("EventLineJSON") /\ res.status = "ok")
          => (res.out # <<>> /\ res.out[Len(res.out)] = 125
              /\ ~Contains(res.out, Newline))

C4_Witness ==
    /\ IsCall("SpanLogJSON")
    /\ res.status = "ok"
    /\ Len(call.spanLogs) > 0
    /\ EndsWithOneNewline(res.out)

\* the lines of s, each without its newline; text after the last newline
\* counts as one more line, marked as unterminated by a leading -1
RECURSIVE LinesOf(_)
LinesOf(s) ==
    IF s = <<>> THEN <<>>
    ELSE IF ~Contains(s, Newline) THEN <<(<<-1>> \o s)>>
    ELSE LET i == CHOOSE i \in 1..Len(s) :
                      s[i] = Newline /\ \A j \in 1..(i - 1) : s[j] # Newline
         IN  <<SubSeq(s, 1, i - 1)>> \o LinesOf(SubSeq(s, i + 1, Len(s)))

\* the granularities whose flag is true, in the mapping's iteration order
RECURSIVE Enabled(_)
Enabled(hgs) ==
    IF hgs = <<>> THEN <<>>
    ELSE (IF Head(hgs)[2] THEN <<Head(hgs)[1]>> ELSE <<>>) \o Enabled(Tail(hgs))

OneLinePerEnabled(out, hgs) ==
    LET lines == LinesOf(out)
        on == Enabled(hgs)
    IN  /\ Len(lines) = Len(on)
        /\ \A i \in 1..Len(lines) :
              /\ HasPrefix(lines[i], GranularityString(on[i]))
              /\ SubSeq(lines[i], 3, Len(lines[i])) = SubSeq(lines[1], 3, Len(lines[1]))

BareHead(str) == str \in {<<>>, DeltaPrefix, AltDeltaPrefix}

C8_Idempotent ==
    IsCall("sanitizeInternal") =>
        /\ res.status = "ok"
        /\ ~res.again.panic
        /\ res.again.out = res.out
        /\ ~res.sbOut.panic
        /\ (\A i \in (HeadLen(call.str) + 1)..Len(call.str) : call.str[i] \in LegalBytes)
              => (res.out = call.str /\ res.sbOut.out = call.str)

\* C10: for every non-empty identifier the output has the input's length,
\* keeps the head and every legal byte in place and has '-' for every other
\* byte.
C10_ByteForByte ==
    IsCall("sanitizeInternal") =>
        /\ res.status = "ok"
        /\ res.out = Expected(call.str)
        /\ ~res.sbOut.panic
        /\ res.sbOut.out = Expected(call.str)

\* what holds of sanitization on the identifiers it does not abort on: both
\* forms agree, the output is byte for byte as C10 says, and sanitizing it
\* again changes nothing; it aborts exactly on a bare delta marker
SanitizeUnlessBareHead ==
    IsCall("sanitizeInternal") =>
        /\ res.status = "panic" <=> BareHead(call.str)
        /\ res.sbOut.panic <=> BareHead(call.str)
        /\ ~BareHead(call.str) =>
              /\ res.out = Expected(call.str)
              /\ res.sbOut.out = Expected(call.str)
              /\ ~res.again.panic
              /\ res.again.out = res.out

(***************************************************************************)
(* One StringBuilder and the calls made on it.  written is the bytes       *)
(* written since the last Reset; hist records whether the last call was    *)
(* Reset, the capacity before it, and the length before the latest Reset.  *)
(***************************************************************************)
Slacks == {0, 1}

Wrote(b, p) ==
    /\ Cap(b) <= MaxCap
    /\ sb' = b
    /\ written' = written \o p
    /\ hist' = [hist EXCEPT !.reset = FALSE, !.capBefore = 0]
    /\ NoCall /\ NoPool

SbWrite == \E p \in {<<LowerA>>, <<98, LowerA>>}, k \in Slacks : Wrote(Write(sb, p, k), p)

SbWriteByte == \E c \in {98}, k \in Slacks : Wrote(WriteByte(sb, c, k), <<c>>)

\* 'a', U+0394, and -1, which byte(r) truncates to 255
SbWriteRune ==
    \E r \in {LowerA, 916, -1}, k \in Slacks :
        Wrote(WriteRune(sb, r, k),
              CASE r = LowerA -> <<LowerA>> [] r = 916 -> AltDeltaPrefix [] r = -1 -> <<255>>)

SbWriteString == \E s \in {<<98>>, <<>>}, k \in Slacks : Wrote(WriteString(sb, s, k), s)

\* 1 and -1
SbAppendInt ==
    \E i \in {I64(1), MinusOne}, k \in Slacks :
        Wrote(AppendInt(sb, i, k), IF i = I64(1) THEN <<49>> ELSE <<Dash, 49>>)

\* 1.1
SbAppendFloat == \E k \in Slacks : Wrote(AppendFloat(sb, Fin(FALSE, 1, 10), k), <<49, 46, 49>>)

SbGrow == \E n \in 0..2 : Wrote(Grow(sb, n), <<>>)

SbReset ==
    /\ sb' = Reset(sb)
    /\ written' = <<>>
    /\ hist' = [reset |-> TRUE, capBefore |-> Cap(sb), lenBefore |-> BLen(sb)]
    /\ NoCall /\ NoPool

NextBuilder ==
    \/ SbWrite
    \/ SbWriteByte
    \/ SbWriteRune
    \/ SbWriteString
    \/ SbAppendInt
    \/ SbAppendFloat
    \/ SbGrow
    \/ SbReset

SpecBuilder == Init /\ [][NextBuilder]_vars

\* C7: after any sequence of writes and Grow calls, Reset sets Len() to 0
\* without reducing Cap(), and what is written after the Reset is exactly
\* the visible content: Len() is the number of bytes written since and
\* String() their concatenation, with no byte from before the Reset.
C7_ResetThenWrite ==
    /\ BLen(sb) = Len(written)
    /\ String(sb) = written
    /\ Len(String(sb)) = BLen(sb)
    /\ hist.reset => (BLen(sb) = 0 /\ Cap(sb) >= hist.capBefore)

\* fewer bytes written after a Reset than before it, over the old bytes
C7_Witness ==
    /\ hist.lenBefore > Len(written)
    /\ Len(written) > 0
    /\ Cap(sb) > BLen(sb)
    /\ sb.arr[BLen(sb) + 1] # 0

(***************************************************************************)
(* Encode calls running concurrently on the buffer pool.                   *)
(*                                                                         *)
(* The pool (internal.GetBuffer, internal.PutBuffer) holds the buffers     *)
(* that were put back: GetBuffer hands out one of them, or a new one when  *)
(* it likes, and PutBuffer resets the buffer and puts it back.  bufs[i] is *)
(* buffer i, made the buffers created so far, free the buffers in the      *)
(* pool.                                                                   *)
(***************************************************************************)
Procs == {"p1", "p2"}

\* the calls the processes make: a line, a name that is empty, a blank tag
\* value, a bare delta marker, and so on for the other encoders
JobGranularities == <<(<<"MINUTE", TRUE>>), (<<"HOUR", FALSE>>), (<<"DAY", TRUE>>)>>

Job(op, name, tags, traceId) ==
    [op |-> op, name |-> name, tags |-> tags, traceId |-> traceId, spanId |-> GoodUUID,
     centroids |-> <<Centroid(Fin(FALSE, 3, 0), 2)>>, hgs |-> JobGranularities]

Jobs ==
    {Job("MetricLine", <<LowerA>>, <<>>, <<>>),
     Job("MetricLine", <<>>, <<>>, <<>>),
     Job("MetricLine", <<98, 98>>, <<(<<(<<107>>), (<<>>)>>)>>, <<>>),
     Job("MetricLine", DeltaPrefix, <<>>, <<>>),
     Job("HistoLine", <<LowerA>>, <<>>, <<>>),
     Job("HistoLine", <<>>, <<>>, <<>>),
     Job("SpanLine", <<LowerA>>, <<>>, GoodUUID),
     Job("SpanLine", <<LowerA>>, <<>>, <<>>),
     [Job("SpanLine", <<LowerA>>, <<>>, GoodUUID) EXCEPT !.spanId = <<LowerA>>],
     [Job("HistoLine", <<LowerA>>, <<>>, <<>>) EXCEPT !.centroids = <<>>],
     [Job("HistoLine", <<LowerA>>, <<>>, <<>>) EXCEPT !.hgs = <<>>],
     Job("SpanLogJSON", <<>>, <<>>, GoodUUID),
     Job("EventLine", <<LowerA>>, <<>>, <<>>),
     Job("EventLineJSON", <<LowerA>>, <<>>, <<>>)}

\* what the call does when it runs alone
JobResult(job) ==
    CASE job.op = "MetricLine" ->
             MetricLine(job.name, Fin(FALSE, 1, 0), I64Zero, <<>>, job.tags, <<100>>)
      [] job.op = "HistoLine" ->
             HistoLine(job.name, job.centroids, job.hgs, I64Zero, <<>>, job.tags, <<100>>)
      [] job.op = "SpanLine" ->
             SpanLine(job.name, I64(5), I64(6), <<>>, job.traceId, job.spanId, <<>>, <<>>,
                      job.tags, <<>>, <<100>>)
      [] job.op = "SpanLogJSON" -> SpanLogJSON(job.traceId, GoodUUID, <<>>, TRUE)
      [] job.op = "EventLine" -> EventLine(job.name, I64(5), I64Zero, <<>>, job.tags, <<>>)
      [] job.op = "EventLineJSON" ->
             EventLineJSON(job.name, I64(5), I64Zero, <<>>, job.tags, <<>>)

\* a variant that puts the buffer back before the return value is evaluated
encoderStepsReleaseFirst(r) ==
    IF r.acq = 0 THEN <<"done">>
    ELSE IF r.status = "ok" THEN <<"acquire", "write", "release", "snapshot", "done">>
    ELSE <<"acquire", "write", "release", "done">>

\* a variant that puts the buffer back only at the end, not on an error return
encoderStepsNoDefer(r) ==
    IF r.acq = 0 THEN <<"done">>
    ELSE IF r.status = "ok" THEN <<"acquire", "write", "snapshot", "release", "done">>
    ELSE <<"acquire", "write", "done">>

\* the steps of an encode call, in the order of its statements: the checks
\* before GetBuffer return at once; "defer PutBuffer(sb)" runs after the
\* return value is evaluated, on the error returns and on a panic as well
encoderSteps(r) ==
    IF r.acq = 0 THEN <<"done">>
    ELSE IF r.status = "ok" THEN <<"acquire", "write", "snapshot", "release", "done">>
    ELSE <<"acquire", "write", "release", "done">>

\* where process p is in its call
Pc(p) == IF proc[p].step = 0 THEN "idle" ELSE proc[p].steps[proc[p].step]

\* what the caller gets
Outcome(r) == [status |-> r.status, out |-> r.out, err |-> r.err]

NoOutcome == [status |-> "none", out |-> <<>>, err |-> ""]

\* internal.GetBuffer: the buffers it may hand out
GetBuffer == free \cup (IF made < NBufs THEN {made + 1} ELSE {})

\* internal.PutBuffer(sb): sb.Reset() and back to the pool
PutBuffer(i) ==
    /\ bufs' = [bufs EXCEPT ![i] = Reset(bufs[i])]
    /\ free' = free \cup {i}

NoSpec == UNCHANGED <<call, res, sb, written, hist>>

Start(p) ==
    /\ proc[p].step = 0
    /\ nCalls < MaxCalls
    /\ \E job \in Jobs :
          LET r == JobResult(job)
          IN  proc' = [proc EXCEPT ![p] =
                          [step |-> 1, job |-> job, steps |-> encoderSteps(r),
                           todo |-> r.sbuf, buf |-> 0, used |-> 0, pos |-> 0,
                           acq |-> 0, rel |-> 0,
                           ret |-> IF r.acq = 0 THEN Outcome(r) ELSE NoOutcome,
                           fail |-> IF r.status = "ok" THEN NoOutcome ELSE Outcome(r)]]
    /\ nCalls' = nCalls + 1
    /\ UNCHANGED <<bufs, free, made, nAcq, nRel>>
    /\ NoSpec

Acquire(p) ==
    /\ Pc(p) = "acquire"
    /\ \E i \in GetBuffer :
          /\ proc' = [proc EXCEPT ![p].step = @ + 1, ![p].buf = i, ![p].used = i,
                                  ![p].acq = @ + 1]
          /\ free' = free \ {i}
          /\ made' = Max(made, i)
    /\ nAcq' = nAcq + 1
    /\ UNCHANGED <<bufs, nCalls, nRel>>
    /\ NoSpec

\* the writes of the call, in two batches
WriteStep(p) ==
    /\ Pc(p) = "write"
    /\ LET all == proc[p].todo
           upto == IF proc[p].pos = 0 THEN (Len(all) + 1) \div 2 ELSE Len(all)
           i == proc[p].buf
       IN  /\ bufs' = [bufs EXCEPT ![i] =
                          WriteString(bufs[i], SubSeq(all, proc[p].pos + 1, upto), 0)]
           /\ proc' = [proc EXCEPT ![p].pos = upto,
                                   ![p].step = IF upto = Len(all) THEN @ + 1 ELSE @]
    /\ UNCHANGED <<free, made, nCalls, nAcq, nRel>>
    /\ NoSpec

\* "return sb.String(), nil"; in HistoLine the lines copied from sb.GetBuf()
Snapshot(p) ==
    /\ Pc(p) = "snapshot"
    /\ LET b == bufs[proc[p].used]
           out == IF proc[p].job.op = "HistoLine"
                  THEN granularityLoop(Bytes(b), proc[p].job.hgs)
                  ELSE String(b)
       IN  proc' = [proc EXCEPT ![p].step = @ + 1,
                                ![p].ret = [status |-> "ok", out |-> out, err |-> ""]]
    /\ UNCHANGED <<bufs, free, made, nCalls, nAcq, nRel>>
    /\ NoSpec

\* the deferred PutBuffer
Release(p) ==
    /\ Pc(p) = "release"
    /\ PutBuffer(proc[p].buf)
    /\ proc' = [proc EXCEPT ![p].step = @ + 1, ![p].buf = 0, ![p].rel = @ + 1,
                            ![p].ret = IF proc[p].fail.status = "none" THEN @
                                       ELSE proc[p].fail]
    /\ nRel' = nRel + 1
    /\ UNCHANGED <<made, nCalls, nAcq>>
    /\ NoSpec

\* the caller takes the result
Finish(p) ==
    /\ Pc(p) = "done"
    /\ proc' = [proc EXCEPT ![p] = IdleProc]
    /\ UNCHANGED <<bufs, free, made, nCalls, nAcq, nRel>>
    /\ NoSpec

NextPool ==
    \E p \in Procs :
        \/ Start(p)
        \/ Acquire(p)
        \/ WriteStep(p)
        \/ Snapshot(p)
        \/ Release(p)
        \/ Finish(p)

SpecPool == Init /\ [][NextPool]_vars

\* the calls that return before GetBuffer, and those that never call it
ReturnsBeforeGetBuffer(job) ==
    \/ job.op \in {"SpanLogJSON", "EventLineJSON"}
    \/ (job.op \in {"MetricLine", "HistoLine", "SpanLine"} /\ job.name = <<>>)
    \/ (job.op = "HistoLine" /\ (Len(job.centroids) = 0 \/ Len(job.hgs) = 0))
    \/ (job.op = "SpanLine" /\ (~isUUIDFormat(job.traceId) \/ ~isUUIDFormat(job.spanId)))

Quiescent == \A p \in Procs : Pc(p) \in {"idle", "done"}

\* C5, as claimed: every encode call, on every exit path, takes exactly one
\* buffer from the pool and has released it when it returns, and after any
\* sequence of calls as many buffers were released as were taken.
C5_ExactlyOneBuffer ==
    /\ \A p \in Procs :
          Pc(p) = "done" => (proc[p].acq = 1 /\ proc[p].rel = 1 /\ proc[p].buf = 0)
    /\ Quiescent => nAcq = nRel

\* C5, amended: an encode call takes at most one buffer from the pool: none in
\* SpanLogJSON and EventLineJSON and on the error returns that come before
\* GetBuffer (empty name, no centroid, no granularity, a trace or span id that
\* is no UUID), exactly one otherwise; a buffer taken is released when the
\* call returns, on the tag errors and on a panic as well; after any sequence
\* of calls as many buffers were released as were taken.
C5_AtMostOneBufferReleased ==
    /\ \A p \in Procs :
          Pc(p) = "done" =>
              /\ proc[p].buf = 0
              /\ proc[p].acq = proc[p].rel
              /\ proc[p].acq = IF ReturnsBeforeGetBuffer(proc[p].job) THEN 0 ELSE 1
    /\ Quiescent => nAcq = nRel

\* a call that returned a tag error, its buffer released
C5_Witness ==
    \E p \in Procs :
        /\ Pc(p) = "done"
        /\ proc[p].ret.status = "err"
        /\ proc[p].acq = 1
        /\ proc[p].rel = 1

\* C9: a call uses its buffer only between its acquire and its release, no
\* two calls hold the same buffer, and under every interleaving a call
\* returns what it returns when run alone, also when another call takes the
\* same buffer right after the release and overwrites it.
C9_SameAsAlone ==
    /\ \A p \in Procs :
          /\ Pc(p) \in {"write", "snapshot", "release"} =>
                (proc[p].buf # 0 /\ proc[p].buf \notin free)
          /\ \A q \in Procs \ {p} : proc[p].buf # 0 => proc[q].buf # proc[p].buf
          /\ Pc(p) = "done" => proc[p].ret = Outcome(JobResult(proc[p].job))

\* a call has returned its line and another call has since written over
\* the buffer it used
C9_Witness ==
    \E p \in Procs, q \in Procs :
        /\ p # q
        /\ Pc(p) = "done"
        /\ proc[p].ret.status = "ok"
        /\ proc[p].ret.out # <<>>
        /\ proc[p].used # 0
        /\ proc[q].buf = proc[p].used
        /\ proc[q].pos > 0
        /\ Bytes(bufs[proc[q].buf]) # proc[p].ret.out

====
